---- MODULE Spec2Model ----
(***************************************************************************)
(* Model of the email assistant of src/src/email_agent.py: the triage      *)
(* router, the response agent (llm_call, should_continue, tool_node) and   *)
(* the graph that wires them (studio_email_assistant).                     *)
(*                                                                         *)
(* One conversation is one run of the compiled graph on one email_input.   *)
(* The language models and the MCP tools are the environment: what they    *)
(* return is drawn from small sets.                                        *)
(***************************************************************************)
EXTENDS Integers, Sequences, FiniteSets, TLC

VARIABLES
    email_input,              \* State.email_input
    classification_decision,  \* State.classification_decision, Unset until triage
    messages,                 \* State.messages
    node,                     \* the node of the graph that runs next
    error,                    \* the exception that ended the run, or NoError
    result,                   \* what the classifier returned (history)
    classifier_calls,         \* number of llm_router.invoke calls (history)
    llm_calls,                \* number of llm_with_tools.invoke calls (history)
    dispatched,               \* the tool calls handed to tools_by_name, in order (history)
    issued_ids,               \* the last tool-call id the model has issued
    in_flight,                \* the tool calls tool_node is awaiting (tool.ainvoke)
    returned,                 \* how many calls of the running tool_node have returned
    email_assistant,          \* server.py: the global agent instance, or None
    lifespan,                 \* server.py: where lifespan(app) stands
    request,                  \* server.py: the /invoke requests and their responses
    current,                  \* the request whose conversation the variables above hold
    parked                    \* the conversations of the other requests, suspended

\* The state of one conversation (one ainvoke of the graph).
convVars == <<email_input, classification_decision, messages, node, error, result,
              classifier_calls, llm_calls, dispatched, in_flight, returned, issued_ids>>

\* The state of the server around the conversations.
srvVars == <<email_assistant, lifespan, request, current, parked>>

vars == <<convVars, srvVars>>

(***************************************************************************)
(* Bounds of the model.                                                    *)
(***************************************************************************)
\* The code has no iteration cap; the model stops asking the model after
\* this many invocations.
MaxLLMCalls == 3

\* The largest number of tool calls a scripted model puts in one turn.
MaxToolCalls == 2

\* The /invoke requests the server receives.
NumRequests == 2

\* The model invocations of one conversation when several run in the server.
MaxServerLLMCalls == 1

(***************************************************************************)
(* Values.                                                                 *)
(***************************************************************************)
END == "__end__"

Unset == "unset"

NoId == 0

NoError == "none"

\* raise ValueError(f"Invalid classification: {result.classification}")
InvalidClassification == "ValueError: Invalid classification"

\* the route should_continue returned is not a key of the path map
NoActionSelected == "KeyError: no route"

\* tools_by_name[tool_call["name"]] has no such key
ToolNotFound == "KeyError: no such tool"

\* tool.ainvoke raised
ToolRaised == "ToolException"

\* The emails a conversation is created with (client/cli.py builds the
\* mapping author/to/subject/email_thread).
Emails ==
    { [author |-> "a@x.com", to |-> "b@x.com", subject |-> "Meet?",
       email_thread |-> "Can we meet Tuesday?"],
      [author |-> "news@x.com", to |-> "b@x.com", subject |-> "Sale",
       email_thread |-> "50% off"] }

\* RouterSchema.classification: Literal["ignore", "respond", "notify"]
RouterSchema == {"ignore", "respond", "notify"}

\* What a classifier can hand back: the three categories, and a value
\* outside the schema.
ClassifierResults == RouterSchema \cup {"spam"}

\* The tools mcp_tools.py registers; load_mcp_tools builds tools_by_name
\* from them.
tools_by_name ==
    {"schedule_meeting", "check_calendar_availability", "write_email",
     "triage_email", "Done"}

\* The names a scripted model selects from in the model: a registered tool,
\* the completion signal, and a name no tool is registered under.
SelectableNames == {"check_calendar_availability", "Done", "no_such_tool"}

\* The names a model bound to the tools (bind_tools) selects from in the
\* model: registered tools only.
BoundNames ==
    {"check_calendar_availability", "schedule_meeting", "Done"} \cap tools_by_name

(***************************************************************************)
(* utils.parse_email / utils.format_email_markdown                         *)
(***************************************************************************)
parse_email(e) == <<e.author, e.to, e.subject, e.email_thread>>

format_email_markdown(subject, author, to, email_thread) ==
    <<"## Subject: ", subject, "From: ", author, "To: ", to, email_thread>>

(***************************************************************************)
(* Turns.  Every turn has the same four fields; content is a sequence of   *)
(* text pieces, tool_call_id is NoId on turns that answer no call.         *)
(***************************************************************************)
UserTurn(content) ==
    [role |-> "user", content |-> content, tool_calls |-> <<>>, tool_call_id |-> NoId]

AssistantTurn(calls) ==
    [role |-> "assistant", content |-> <<>>, tool_calls |-> calls, tool_call_id |-> NoId]

ToolTurn(observation, id) ==
    [role |-> "tool", content |-> observation, tool_calls |-> <<>>, tool_call_id |-> id]

\* A tool call the model issues: the model gives every call a fresh id.
ToolCall(name, id) == [name |-> name, args |-> <<"args of ", name>>, id |-> id]

\* The text a tool of mcp_tools.py returns for a call.
Observation(call) == <<"result of ", call.name>> \o call.args

\* The tool calls of one model turn: the names, numbered from the ids
\* already issued.
CallsOf(names, base) == [i \in 1..Len(names) |-> ToolCall(names[i], base + i)]

\* State(MessagesState): updates to messages go through the add_messages
\* reducer, which appends the new turns (every turn here has a fresh id).
add_messages_overwrites(left, right) == right

add_messages(left, right) == left \o right

\* Sequences over S of length lo..hi.
SeqsOf(S, lo, hi) == UNION { [1..n -> S] : n \in lo..hi }

\* llm.bind_tools(tools, tool_choice="any", parallel_tool_calls=False):
\* a turn of the bound model carries one call, of a bound tool.
BoundTurns_parallel == SeqsOf(BoundNames, 1, 2)

BoundTurns == SeqsOf(BoundNames, 1, 1)

(***************************************************************************)
(* should_continue: the route after an assistant turn.  The for loop       *)
(* returns on its first iteration, so only the first tool call decides;    *)
(* with no tool call the function falls off its end and returns None.      *)
(***************************************************************************)
should_continue_dispatches_done(msgs) ==
    LET last_message == msgs[Len(msgs)]
    IN  IF Len(last_message.tool_calls) > 0 THEN "Action" ELSE "None"

should_continue_ends_without_call(msgs) ==
    LET last_message == msgs[Len(msgs)]
    IN  IF Len(last_message.tool_calls) > 0
        THEN IF last_message.tool_calls[1].name = "Done" THEN END ELSE "Action"
        ELSE END

should_continue_any_done(msgs) ==
    LET last_message == msgs[Len(msgs)]
    IN  IF Len(last_message.tool_calls) > 0
        THEN IF \E k \in 1..Len(last_message.tool_calls) :
                    last_message.tool_calls[k].name = "Done"
             THEN END ELSE "Action"
        ELSE "None"

should_continue_capped(msgs) ==
    LET last_message == msgs[Len(msgs)]
    IN  IF Len(last_message.tool_calls) > 0
        THEN IF last_message.tool_calls[1].name = "Done" \/ Len(msgs) >= 4
             THEN END ELSE "Action"
        ELSE "None"

should_continue(msgs) ==
    LET last_message == msgs[Len(msgs)]
    IN  IF Len(last_message.tool_calls) > 0
        THEN IF last_message.tool_calls[1].name = "Done" THEN END ELSE "Action"
        ELSE "None"

\* add_conditional_edges("agent", should_continue, {"Action": "tools", END: END})
path_map_end_to_tools == [Action |-> "tools", __end__ |-> "tools"]

path_map_action_to_agent == [Action |-> "agent", __end__ |-> END]

path_map == [Action |-> "tools", __end__ |-> END]

\* overall_workflow gives response_agent no outgoing edge: when the agent
\* graph ends, the run ends.
after_response_agent_to_triage == "triage_router"

after_response_agent == END

\* A node runs when the graph has routed to it and no exception has ended
\* the run.
Runs(n) == node = n /\ error = NoError

(***************************************************************************)
(* triage_router: the Command it returns for a classifier result, or the   *)
(* exception it raises.                                                    *)
(***************************************************************************)
triage_command_notify_responds(classification, email_markdown) ==
    IF classification = "respond" \/ classification = "notify"
    THEN [raises |-> NoError, goto |-> "response_agent",
          classification_decision |-> classification,
          messages |-> << UserTurn(<<"Respond to the email: ">> \o email_markdown) >>]
    ELSE IF classification = "ignore"
    THEN [raises |-> NoError, goto |-> END,
          classification_decision |-> classification, messages |-> <<>>]
    ELSE [raises |-> InvalidClassification, goto |-> "none",
          classification_decision |-> Unset, messages |-> <<>>]

triage_command_no_turn(classification, email_markdown) ==
    IF classification = "respond"
    THEN [raises |-> NoError, goto |-> "response_agent",
          classification_decision |-> classification, messages |-> <<>>]
    ELSE IF classification = "ignore" \/ classification = "notify"
    THEN [raises |-> NoError, goto |-> END,
          classification_decision |-> classification, messages |-> <<>>]
    ELSE [raises |-> InvalidClassification, goto |-> "none",
          classification_decision |-> Unset, messages |-> <<>>]

triage_command_coerces(classification, email_markdown) ==
    IF classification = "respond"
    THEN [raises |-> NoError, goto |-> "response_agent",
          classification_decision |-> classification,
          messages |-> << UserTurn(<<"Respond to the email: ">> \o email_markdown) >>]
    ELSE IF classification = "notify"
    THEN [raises |-> NoError, goto |-> END,
          classification_decision |-> classification, messages |-> <<>>]
    ELSE [raises |-> NoError, goto |-> END,
          classification_decision |-> "ignore", messages |-> <<>>]

triage_command_rewrites_email(classification, email_markdown) ==
    IF classification = "respond"
    THEN [raises |-> NoError, goto |-> "response_agent",
          classification_decision |-> classification,
          messages |-> << UserTurn(<<"Respond to the email: ">> \o email_markdown) >>,
          email_input |-> [author |-> "", to |-> "", subject |-> "",
                           email_thread |-> ""]]
    ELSE IF classification = "ignore" \/ classification = "notify"
    THEN [raises |-> NoError, goto |-> END,
          classification_decision |-> classification, messages |-> <<>>]
    ELSE [raises |-> InvalidClassification, goto |-> "none",
          classification_decision |-> Unset, messages |-> <<>>]

triage_command(classification, email_markdown) ==
    IF classification = "respond"
    THEN [raises |-> NoError, goto |-> "response_agent",
          classification_decision |-> classification,
          messages |-> << UserTurn(<<"Respond to the email: ">> \o email_markdown) >>]
    ELSE IF classification = "ignore"
    THEN [raises |-> NoError, goto |-> END,
          classification_decision |-> classification, messages |-> <<>>]
    ELSE IF classification = "notify"
    THEN [raises |-> NoError, goto |-> END,
          classification_decision |-> classification, messages |-> <<>>]
    ELSE [raises |-> InvalidClassification, goto |-> "none",
          classification_decision |-> Unset, messages |-> <<>>]

\* The node a goto of the overall workflow leads to: response_agent is the
\* compiled agent graph, which starts at its node "agent".
EntryOf(goto) == IF goto = "response_agent" THEN "agent" ELSE goto

(***************************************************************************)
(* tool_node: the tool-result turns for the calls of the last turn.        *)
(***************************************************************************)
tool_results_index_as_id(calls) ==
    [i \in 1..Len(calls) |-> ToolTurn(Observation(calls[i]), i)]

tool_results_twice(calls) ==
    [i \in 1..(2 * Len(calls)) |->
        ToolTurn(Observation(calls[(i + 1) \div 2]), calls[(i + 1) \div 2].id)]

tool_results(calls) ==
    [i \in 1..Len(calls) |-> ToolTurn(Observation(calls[i]), calls[i].id)]

(***************************************************************************)
(* The server around the graph (server/server.py): values.                 *)
(***************************************************************************)
None == "None"

Agent == "email_assistant"

Requests == 1..NumRequests

\* The state a conversation starts in: ainvoke({"email_input": e}).
InitRecord(e) ==
    [email_input |-> e, classification_decision |-> Unset, messages |-> <<>>,
     node |-> "triage_router", error |-> NoError, result |-> "none",
     classifier_calls |-> 0, llm_calls |-> 0, dispatched |-> <<>>,
     in_flight |-> {}, returned |-> 0, issued_ids |-> 0]

\* The entry of parked for a request whose conversation is not suspended.
NotParked == InitRecord(CHOOSE e \in Emails : TRUE)

\* A request that has not arrived.
NewRequest ==
    [status |-> "new", code |-> 0, detail |-> <<>>, response |-> <<>>]

\* The graph is used directly, without the server (lines 179-183): one
\* conversation, the agent is there.
Standalone ==
    /\ email_assistant = Agent
    /\ lifespan = "serving"
    /\ request = [r \in Requests |-> NewRequest]
    /\ current = 1
    /\ parked = [r \in Requests |-> NotParked]

(***************************************************************************)
(* Init: the graph is compiled and invoked with {email_input}.             *)
(***************************************************************************)
Init ==
    /\ email_input \in Emails
    /\ classification_decision = Unset
    /\ messages = <<>>
    /\ node = "triage_router"
    /\ error = NoError
    /\ result = "none"
    /\ classifier_calls = 0
    /\ llm_calls = 0
    /\ dispatched = <<>>
    /\ issued_ids = 0
    /\ in_flight = {}
    /\ returned = 0
    /\ Standalone

(***************************************************************************)
(* Actions.                                                                *)
(***************************************************************************)
triage_router ==
    /\ Runs("triage_router")
    /\ \E r \in ClassifierResults :
        LET parsed == parse_email(email_input)
            email_markdown ==
                format_email_markdown(parsed[3], parsed[1], parsed[2], parsed[4])
            cmd == triage_command(r, email_markdown)
        IN  /\ result' = r
            /\ classifier_calls' = classifier_calls + 1
            /\ IF cmd.raises = NoError
               THEN /\ classification_decision' = cmd.classification_decision
                    /\ messages' = add_messages(messages, cmd.messages)
                    /\ email_input' = IF "email_input" \in DOMAIN cmd
                                       THEN cmd.email_input
                                       ELSE email_input
                    /\ node' = EntryOf(cmd.goto)
                    /\ error' = error
               ELSE /\ error' = cmd.raises
                    /\ UNCHANGED <<classification_decision, messages, node,
                                   email_input>>
    /\ UNCHANGED <<llm_calls, dispatched, issued_ids, in_flight, returned, srvVars>>

\* llm_call, then the conditional edge should_continue of the same step.
\* When the route is no key of the path map the step raises; the turn the
\* model returned stays in messages as the last thing the run produced.
llm_call_with(nameSeqs) ==
    /\ Runs("agent")
    /\ llm_calls < MaxLLMCalls
    /\ \E names \in nameSeqs :
        LET calls == CallsOf(names, issued_ids)
            msgs  == add_messages(messages, << AssistantTurn(calls) >>)
            route == should_continue(msgs)
        IN  /\ messages' = msgs
            /\ issued_ids' = issued_ids + Len(names)
            /\ llm_calls' = llm_calls + 1
            /\ IF route \in DOMAIN path_map
               THEN /\ node' = IF path_map[route] = END
                                THEN after_response_agent
                                ELSE path_map[route]
                    /\ error' = error
               ELSE /\ node' = node
                    /\ error' = NoActionSelected
    /\ UNCHANGED <<email_input, classification_decision, result, classifier_calls,
                   dispatched, in_flight, returned, srvVars>>

llm_call == llm_call_with(BoundTurns)

\* A scripted model: any number of calls up to MaxToolCalls, of any name.
llm_call_stub == llm_call_with(SeqsOf(SelectableNames, 0, MaxToolCalls))

\* tool_node dispatches the calls of the last turn in order, awaiting each
\* before the next.  Its steps are the stretches between two awaits.
\*
\* StartCall: the loop body up to the await for call k: the lookup in
\* tools_by_name raises for an unregistered name, otherwise the call is in
\* flight.
StartCall_dispatches_unknown(calls, k) ==
    /\ in_flight' = {calls[k]}
    /\ dispatched' = dispatched \o << calls[k] >>
    /\ error' = error

StartCall(calls, k) ==
    IF calls[k].name \in tools_by_name
    THEN /\ in_flight' = {calls[k]}
         /\ dispatched' = dispatched \o << calls[k] >>
         /\ error' = error
    ELSE /\ in_flight' = {}
         /\ dispatched' = dispatched
         /\ error' = ToolNotFound

\* tool_node is entered: its first call is looked up and dispatched.
tool_node ==
    /\ Runs("tools")
    /\ in_flight = {}
    /\ StartCall(messages[Len(messages)].tool_calls, 1)
    /\ UNCHANGED <<email_input, classification_decision, messages, node, result,
                   classifier_calls, llm_calls, issued_ids, returned, srvVars>>

\* The awaited call returns its observation or raises.  After an
\* observation the loop goes on to the next call; after the last one the
\* node returns its results, which are appended to messages, and the edge
\* tools -> agent is taken.
tool_node_resumes ==
    /\ Runs("tools")
    /\ in_flight # {}
    /\ LET calls == messages[Len(messages)].tool_calls
       IN  \E raised \in BOOLEAN :
            IF raised
            THEN /\ error' = ToolRaised
                 /\ in_flight' = {}
                 /\ UNCHANGED <<messages, node, dispatched, returned>>
            ELSE IF returned + 1 < Len(calls)
            THEN /\ returned' = returned + 1
                 /\ StartCall(calls, returned + 2)
                 /\ UNCHANGED <<messages, node>>
            ELSE /\ messages' = add_messages(messages, tool_results(calls))
                 /\ node' = "agent"
                 /\ returned' = 0
                 /\ in_flight' = {}
                 /\ UNCHANGED <<dispatched, error>>
    /\ UNCHANGED <<email_input, classification_decision, result, classifier_calls,
                   llm_calls, issued_ids, srvVars>>

(***************************************************************************)
(* Specifications.  Spec: the model honours the binding of line 195.       *)
(* SpecStub: a scripted model that may return any turn.                    *)
(***************************************************************************)
Next == triage_router \/ llm_call \/ tool_node \/ tool_node_resumes

Spec == Init /\ [][Next]_vars

NextStub == triage_router \/ llm_call_stub \/ tool_node \/ tool_node_resumes

SpecStub == Init /\ [][NextStub]_vars

(***************************************************************************)
(* The server (server/server.py).  The conversations of the requests run   *)
(* concurrently in one event loop: one of them, current, is the one that   *)
(* runs, the others are suspended at an await.  Every ainvoke has a state  *)
(* of its own; the agent, the models and the tool session are shared.      *)
(***************************************************************************)
\* The state of the running conversation, as a record.
ConvRecord ==
    [email_input |-> email_input, classification_decision |-> classification_decision,
     messages |-> messages, node |-> node, error |-> error, result |-> result,
     classifier_calls |-> classifier_calls, llm_calls |-> llm_calls,
     dispatched |-> dispatched, in_flight |-> in_flight, returned |-> returned,
     issued_ids |-> issued_ids]

\* The running conversation becomes the one of record rec.
Resume_shared_messages(rec) ==
    /\ email_input' = rec.email_input
    /\ classification_decision' = rec.classification_decision
    /\ messages' = messages
    /\ node' = rec.node
    /\ error' = rec.error
    /\ result' = rec.result
    /\ classifier_calls' = rec.classifier_calls
    /\ llm_calls' = rec.llm_calls
    /\ dispatched' = rec.dispatched
    /\ in_flight' = rec.in_flight
    /\ returned' = rec.returned
    /\ issued_ids' = rec.issued_ids

Resume(rec) ==
    /\ email_input' = rec.email_input
    /\ classification_decision' = rec.classification_decision
    /\ messages' = rec.messages
    /\ node' = rec.node
    /\ error' = rec.error
    /\ result' = rec.result
    /\ classifier_calls' = rec.classifier_calls
    /\ llm_calls' = rec.llm_calls
    /\ dispatched' = rec.dispatched
    /\ in_flight' = rec.in_flight
    /\ returned' = rec.returned
    /\ issued_ids' = rec.issued_ids

\* The conversation of request r.
Conv(r) == IF r = current THEN ConvRecord ELSE parked[r]

\* if email_assistant is None: raise HTTPException(status_code=503, ...)
Rejects_never(ea) == FALSE

Rejects(ea) == ea = None

\* The response of invoke_agent when ainvoke has ended: the exception is
\* turned into a 500, the final state is returned otherwise.
InvokeResponse_swallows(conv) ==
    [status |-> "responded", code |-> 200, detail |-> <<>>,
     response |-> << [email_input |-> conv.email_input,
                      classification_decision |-> conv.classification_decision,
                      messages |-> conv.messages] >>]

InvokeResponse(conv) ==
    IF conv.error # NoError
    THEN [status |-> "responded", code |-> 500,
          detail |-> <<"Error invoking agent: ", conv.error>>, response |-> <<>>]
    ELSE [status |-> "responded", code |-> 200, detail |-> <<>>,
          response |-> << [email_input |-> conv.email_input,
                           classification_decision |-> conv.classification_decision,
                           messages |-> conv.messages] >>]

\* The email request r carries: consecutive requests carry different emails.
RequestEmail(r) ==
    CHOOSE e \in Emails : (e.subject = "Meet?") <=> (r % 2 = 1)

\* The model gives every call a fresh id, also across conversations: the
\* ids of the conversation of request r start after IdBase(r).
IdBase(r) == (r - 1) * MaxServerLLMCalls

\* The turns of the model in the server specification: no call, or one call.
ServerTurns == SeqsOf({"check_calendar_availability", "Done"}, 0, 1)

ServerInit ==
    /\ email_assistant = None
    /\ lifespan = "not_started"
    /\ request = [r \in Requests |-> NewRequest]
    /\ current = 1
    /\ email_input = CHOOSE e \in Emails : TRUE
    /\ classification_decision = Unset
    /\ messages = <<>>
    /\ node = "triage_router"
    /\ error = NoError
    /\ result = "none"
    /\ classifier_calls = 0
    /\ llm_calls = 0
    /\ dispatched = <<>>
    /\ in_flight = {}
    /\ returned = 0
    /\ issued_ids = 0
    /\ parked = [r \in Requests |-> NotParked]

\* lifespan: async with studio_email_assistant() as agent: email_assistant = agent
lifespan_startup ==
    /\ lifespan = "not_started"
    /\ lifespan' = "serving"
    /\ email_assistant' = Agent
    /\ UNCHANGED <<convVars, request, current, parked>>

\* lifespan is resumed after its yield and leaves the async with block
lifespan_exit ==
    /\ lifespan = "serving"
    /\ lifespan' = "exiting"
    /\ UNCHANGED <<convVars, email_assistant, request, current, parked>>

\* email_assistant = None
lifespan_shutdown ==
    /\ lifespan = "exiting"
    /\ lifespan' = "stopped"
    /\ email_assistant' = None
    /\ UNCHANGED <<convVars, request, current, parked>>

\* invoke_agent up to its await: the request is rejected, or ainvoke starts
\* a conversation on the request's email.
invoke_agent(r) ==
    /\ request[r].status = "new"
    /\ IF Rejects(email_assistant)
       THEN /\ request' = [request EXCEPT ![r] =
                   [status |-> "responded", code |-> 503,
                    detail |-> <<"Agent not initialized">>, response |-> <<>>]]
            /\ UNCHANGED <<convVars, current, parked>>
       ELSE /\ request' = [request EXCEPT ![r].status = "running"]
            /\ parked' = [[parked EXCEPT ![current] = ConvRecord] EXCEPT ![r] = NotParked]
            /\ current' = r
            /\ Resume([InitRecord(RequestEmail(r)) EXCEPT !.issued_ids = IdBase(r)])
    /\ UNCHANGED <<email_assistant, lifespan>>

\* The event loop resumes the conversation of another request, one that
\* has not ended.
Switch(r) ==
    /\ r # current
    /\ request[r].status = "running"
    /\ parked[r].error = NoError
    /\ parked[r].node # END
    /\ parked' = [[parked EXCEPT ![current] = ConvRecord] EXCEPT ![r] = NotParked]
    /\ current' = r
    /\ Resume(parked[r])
    /\ UNCHANGED <<email_assistant, lifespan, request>>

\* ainvoke has ended, with the final state or with an exception:
\* invoke_agent answers.
invoke_agent_returns(r) ==
    /\ request[r].status = "running"
    /\ Conv(r).error # NoError \/ Conv(r).node = END
    /\ request' = [request EXCEPT ![r] = InvokeResponse(Conv(r))]
    /\ UNCHANGED <<convVars, email_assistant, lifespan, current, parked>>

\* The steps of the running conversation: ainvoke of its request has not
\* ended.
Running == request[current].status = "running"

llm_call_server ==
    /\ llm_calls < MaxServerLLMCalls
    /\ llm_call_with(ServerTurns)

ServerNext ==
    \/ lifespan_startup
    \/ lifespan_exit
    \/ lifespan_shutdown
    \/ \E r \in Requests : invoke_agent(r)
    \/ \E r \in Requests : Switch(r)
    \/ \E r \in Requests : invoke_agent_returns(r)
    \/ Running /\ triage_router
    \/ Running /\ llm_call_server
    \/ Running /\ tool_node
    \/ Running /\ tool_node_resumes

SpecServer == ServerInit /\ [][ServerNext]_vars

(***************************************************************************)
(* Vocabulary of the properties.                                           *)
(***************************************************************************)
Indices(role) == { i \in 1..Len(messages) : messages[i].role = role }

RenderedEmail ==
    format_email_markdown(email_input.subject, email_input.author,
                          email_input.to, email_input.email_thread)

TriageTurn ==
    [role |-> "user", content |-> <<"Respond to the email: ">> \o RenderedEmail,
     tool_calls |-> <<>>, tool_call_id |-> NoId]

IsPrefix(s, t) == Len(s) <= Len(t) /\ SubSeq(t, 1, Len(s)) = s

\* Every assistant turn carries exactly one tool call.
OneCallPerTurn == \A i \in Indices("assistant") : Len(messages[i].tool_calls) = 1

SelectsDone(i) ==
    /\ messages[i].role = "assistant"
    /\ Len(messages[i].tool_calls) = 1
    /\ messages[i].tool_calls[1].name = "Done"

\* The run returned normally.
Returned == node = END /\ error = NoError

\* The states of the orchestrator.
OrchState ==
    IF node = "triage_router" THEN "Triage"
    ELSE IF node = END THEN "Terminal"
    ELSE "RespondLoop"

(***************************************************************************)
(* C1: when the classifier returns ignore or notify, messages is as it     *)
(* was at the start (empty), classification is the returned category, the  *)
(* run is at its end, and no model invocation and no tool dispatch has     *)
(* happened.                                                               *)
(***************************************************************************)
C1_IgnoreNotifyEndsAtOnce ==
    result \in {"ignore", "notify"} =>
        /\ messages = <<>>
        /\ classification_decision = result
        /\ Returned
        /\ llm_calls = 0
        /\ dispatched = <<>>

C1_Witness == result = "notify" /\ classification_decision = "notify" /\ node = END

(***************************************************************************)
(* C2: when the classifier returns respond, classification is respond and  *)
(* triage has appended exactly one turn, the user turn "Respond to the     *)
(* email: " + rendered email; it is the only turn before the first model   *)
(* invocation and the first turn ever after, and no model invocation       *)
(* happens in any other case.                                              *)
(***************************************************************************)
C2_RespondAppendsOneUserTurn ==
    /\ result = "respond" =>
        /\ classification_decision = "respond"
        /\ Len(messages) >= 1
        /\ messages[1] = TriageTurn
        /\ Indices("user") = {1}
        /\ llm_calls = 0 => (messages = <<TriageTurn>> /\ node = "agent")
    /\ llm_calls > 0 => result = "respond"

C2_Witness == result = "respond" /\ llm_calls = 0 /\ Len(messages) = 1

(***************************************************************************)
(* C3: with one tool call per turn and no failure, when the N-th model     *)
(* turn selects Done the loop has returned with exactly N model            *)
(* invocations, N assistant turns, N-1 tool dispatches and N-1             *)
(* tool-result turns; and the loop returns only so.                        *)
(***************************************************************************)
C3_DoneOnIterationN ==
    (OneCallPerTurn /\ error = NoError /\ result = "respond") =>
        LET N == Cardinality(Indices("assistant"))
        IN  /\ (Len(messages) > 0 /\ SelectsDone(Len(messages))) =>
                /\ Returned
                /\ N >= 1
                /\ llm_calls = N
                /\ Len(dispatched) = N - 1
                /\ Cardinality(Indices("tool")) = N - 1
                /\ \A i \in Indices("assistant") : i < Len(messages) => ~SelectsDone(i)
            /\ node = END => SelectsDone(Len(messages))

C3_Witness ==
    /\ Returned
    /\ OneCallPerTurn
    /\ llm_calls = 3
    /\ Len(dispatched) = 2
    /\ Cardinality(Indices("tool")) = 2

(***************************************************************************)
(* C4: every tool-role turn comes right after an assistant turn and        *)
(* carries the id of that turn's only tool call.                           *)
(***************************************************************************)
C4_ToolResultPairsWithCall ==
    \A i \in Indices("tool") :
        /\ i > 1
        /\ messages[i - 1].role = "assistant"
        /\ Len(messages[i - 1].tool_calls) = 1
        /\ messages[i].tool_call_id = messages[i - 1].tool_calls[1].id

C4_Witness == Cardinality(Indices("tool")) = 2

(***************************************************************************)
(* C5: an assistant turn whose tool call is Done is the last turn of       *)
(* messages and the run has returned; the Done call is not dispatched and  *)
(* no tool-result turn carries its id.                                     *)
(***************************************************************************)
C5_DoneEndsWithoutDispatch ==
    \A i \in Indices("assistant") :
        SelectsDone(i) =>
            /\ i = Len(messages)
            /\ Returned
            /\ \A k \in 1..Len(dispatched) :
                   dispatched[k].id # messages[i].tool_calls[1].id
            /\ \A j \in Indices("tool") :
                   messages[j].tool_call_id # messages[i].tool_calls[1].id

C5_Witness ==
    /\ Len(messages) = 4
    /\ SelectsDone(4)
    /\ Len(dispatched) = 1

(***************************************************************************)
(* C6: when the classifier returns a value outside ignore/notify/respond,  *)
(* triage raises the invalid-classification error: the classification      *)
(* stays unset, messages stays as it was, and the response loop is not     *)
(* entered.                                                                *)
(***************************************************************************)
C6_InvalidClassificationRaises ==
    (result # "none" /\ result \notin RouterSchema) =>
        /\ error = InvalidClassification
        /\ classification_decision = Unset
        /\ messages = <<>>
        /\ node = "triage_router"
        /\ llm_calls = 0
        /\ dispatched = <<>>

C6_Witness == result = "spam" /\ error = InvalidClassification

(***************************************************************************)
(* C7: an assistant turn with no tool call ends the run with the           *)
(* no-action error: it is the last turn, the run has not returned, no      *)
(* tool was dispatched for it, and nothing happens afterwards.             *)
(***************************************************************************)
NoCallTurn(i) == messages[i].role = "assistant" /\ Len(messages[i].tool_calls) = 0

NoCallHalts ==
    \A i \in 1..Len(messages) :
        NoCallTurn(i) =>
            /\ i = Len(messages)
            /\ error = NoActionSelected
            /\ node # END

C7_NoToolCallIsFatal ==
    [][ /\ NoCallHalts'
        /\ (\E i \in 1..Len(messages) : NoCallTurn(i)) => vars' = vars
        /\ error' = NoActionSelected =>
              /\ dispatched' = dispatched
              /\ Len(messages') = Len(messages) + 1
      ]_vars

C7_Witness ==
    /\ Len(messages) = 4
    /\ NoCallTurn(4)
    /\ error = NoActionSelected
    /\ Len(dispatched) = 1

(***************************************************************************)
(* C8: when a respond conversation has returned, messages is the triage    *)
(* user turn followed by alternating assistant and tool-result turns, the  *)
(* last one the assistant turn that selects Done.                          *)
(***************************************************************************)
C8_FinalMessagesAlternate ==
    (Returned /\ result = "respond") =>
        /\ classification_decision = "respond"
        /\ Len(messages) = 2 * llm_calls
        /\ messages[1] = TriageTurn
        /\ \A i \in 2..Len(messages) :
              IF i % 2 = 0
              THEN messages[i].role = "assistant" /\ Len(messages[i].tool_calls) = 1
              ELSE /\ messages[i].role = "tool"
                   /\ messages[i].tool_call_id = messages[i - 1].tool_calls[1].id
        /\ SelectsDone(Len(messages))
        /\ \A i \in 2..(Len(messages) - 1) : ~SelectsDone(i)

\* the three-step scenario: check_calendar_availability, schedule_meeting, Done
C8_Witness ==
    /\ Returned
    /\ email_input.subject = "Meet?"
    /\ Len(messages) = 6
    /\ messages[2].tool_calls[1].name = "check_calendar_availability"
    /\ messages[4].tool_calls[1].name = "schedule_meeting"
    /\ messages[6].tool_calls[1].name = "Done"
    /\ Cardinality(Indices("assistant")) = 3
    /\ Cardinality(Indices("tool")) = 2

(***************************************************************************)
(* C9: in every step messages is extended at its end or left alone, and    *)
(* classification changes only from unset to ignore, notify or respond,    *)
(* in the step that leaves triage; once triage is left it is set.          *)
(***************************************************************************)
C9_AppendOnlyClassifiedOnce ==
    [][ /\ IsPrefix(messages, messages')
        /\ classification_decision' # classification_decision =>
              /\ classification_decision = Unset
              /\ classification_decision' \in RouterSchema
              /\ node = "triage_router"
        /\ node' # "triage_router" => classification_decision' \in RouterSchema
      ]_vars

C9_Witness ==
    /\ classification_decision = "respond"
    /\ Len(messages) = 5
    /\ node = "agent"

(***************************************************************************)
(* C10: no step is taken from Terminal, and the orchestrator only moves    *)
(* Triage -> Terminal, Triage -> RespondLoop and RespondLoop -> Terminal.  *)
(***************************************************************************)
OrchTransitions ==
    { <<"Triage", "Terminal">>, <<"Triage", "RespondLoop">>,
      <<"RespondLoop", "Terminal">> }

C10_TerminalAbsorbing ==
    [][ /\ OrchState = "Terminal" => vars' = vars
        /\ OrchState' # OrchState => <<OrchState, OrchState'>> \in OrchTransitions
      ]_vars

C10_Witness == OrchState = "Terminal" /\ llm_calls = 2 /\ error = NoError

(***************************************************************************)
(* Vocabulary of the sequencing properties.                                *)
(***************************************************************************)
Range(f) == { f[i] : i \in DOMAIN f }

LastTurn == messages[Len(messages)]

\* the step invokes the model / hands a call to a tool
Invokes == llm_calls' = llm_calls + 1

Dispatches == dispatched' # dispatched

NoTurnSelectsDone ==
    \A i \in Indices("assistant") :
        \A k \in 1..Len(messages[i].tool_calls) : messages[i].tool_calls[k].name # "Done"

(***************************************************************************)
(* C11: at most one tool call is in flight at any time, a step dispatches  *)
(* at most one call, and a call is dispatched only when no other call of   *)
(* the turn the model last returned has been dispatched: at most one       *)
(* dispatch between two model invocations.                                 *)
(***************************************************************************)
C11_AtMostOnePendingAction ==
    [][ /\ Cardinality(in_flight') <= 1
        /\ Len(dispatched') <= Len(dispatched) + 1
        /\ Dispatches =>
              /\ in_flight = {}
              /\ LastTurn.role = "assistant"
              /\ dispatched'[Len(dispatched')] \in Range(LastTurn.tool_calls)
              /\ in_flight' = { dispatched'[Len(dispatched')] }
              /\ \A k \in 1..Len(dispatched) :
                     dispatched[k] \notin Range(LastTurn.tool_calls)
      ]_vars

C11_Witness == Cardinality(in_flight) = 1 /\ Len(dispatched) = 2 /\ llm_calls = 2

(***************************************************************************)
(* C12: the classifier is invoked once, before any model invocation, and   *)
(* never again; after it, model invocations and tool dispatches            *)
(* alternate: the model is invoked only when nothing is in flight and the  *)
(* turn of the previous step (the triage turn, or the tool result of the   *)
(* previous dispatch) is the last of messages, and a tool is dispatched    *)
(* only when the turn of the previous invocation is the last of messages.  *)
(***************************************************************************)
C12_StrictlySequential ==
    [][ /\ classifier_calls' <= 1
        /\ classifier_calls' # classifier_calls => (llm_calls = 0 /\ dispatched = <<>>)
        /\ Invokes =>
              /\ classifier_calls = 1
              /\ result = "respond"
              /\ in_flight = {}
              /\ ~Dispatches
              /\ Len(dispatched) = llm_calls
              /\ IF llm_calls = 0
                 THEN messages = <<TriageTurn>>
                 ELSE /\ LastTurn.role = "tool"
                      /\ LastTurn.tool_call_id = dispatched[Len(dispatched)].id
        /\ Dispatches =>
              /\ ~Invokes
              /\ in_flight = {}
              /\ Len(dispatched) = llm_calls - 1
              /\ LastTurn.role = "assistant"
              /\ Len(messages) = 2 * llm_calls
              /\ dispatched'[Len(dispatched')] = LastTurn.tool_calls[1]
      ]_vars

C12_Witness ==
    /\ classifier_calls = 1
    /\ llm_calls = 3
    /\ Len(dispatched) = 2
    /\ Len(messages) = 6

DispatchFailed == error \in {ToolNotFound, ToolRaised}

\* the call the loop of tool_node is at
CurrentCall == LastTurn.tool_calls[returned + 1]

C14_ToolDispatchFailureIsFatal ==
    [][ /\ DispatchFailed => vars' = vars
        /\ \A k \in 1..Len(dispatched') : dispatched'[k].name \in tools_by_name
        /\ (Runs("tools") /\ in_flight = {} /\ CurrentCall.name \notin tools_by_name) =>
              error' = ToolNotFound
        /\ (DispatchFailed' /\ ~DispatchFailed) =>
              /\ messages' = messages
              /\ llm_calls' = llm_calls
              /\ in_flight' = {}
              /\ node' = "tools"
              /\ LastTurn.role = "assistant"
              /\ \A j \in 1..Len(messages) :
                     messages[j].role = "tool" =>
                         \A k \in 1..Len(LastTurn.tool_calls) :
                             messages[j].tool_call_id # LastTurn.tool_calls[k].id
              /\ error' = ToolRaised =>
                     (in_flight # {} /\ dispatched' = dispatched)
              /\ error' = ToolNotFound => dispatched' = dispatched
      ]_vars

C14_Witness ==
    /\ error = ToolNotFound
    /\ Len(messages) = 4
    /\ Len(LastTurn.tool_calls) = 2
    /\ Len(dispatched) = 2

(***************************************************************************)
(* C16: no step changes email_input.                                       *)
(***************************************************************************)
C16_EmailNeverModified == [][ email_input' = email_input ]_vars

C16_Witness ==
    /\ email_input \in Emails
    /\ classification_decision = "respond"
    /\ Cardinality(Indices("tool")) = 2
    /\ Len(dispatched) = 3

(***************************************************************************)
(* C19: only the first tool call of a turn decides the route.  When it is  *)
(* Done the run ends and no call of the turn is ever dispatched; when it   *)
(* is not Done the run goes to tool_node, and once tool_node has returned, *)
(* the turn is followed by one tool-result turn per call, in order, each   *)
(* with the id of its call, and the calls were dispatched in that order,   *)
(* a Done after the first call included.                                   *)
(***************************************************************************)
Answered(i) ==
    LET calls == messages[i].tool_calls
        n     == Len(calls)
    IN  /\ Len(messages) >= i + n
        /\ \A k \in 1..n :
              /\ messages[i + k].role = "tool"
              /\ messages[i + k].tool_call_id = calls[k].id
              /\ messages[i + k].content = Observation(calls[k])
        /\ \E d \in 0..(Len(dispatched) - n) :
              SubSeq(dispatched, d + 1, d + n) = calls

Started(r) == request[r].status # "new" /\ request[r].code # 503

\* the calls the model issued in the conversation c
CallsIssued(c) ==
    UNION { Range(c.messages[i].tool_calls) :
                i \in { j \in 1..Len(c.messages) : c.messages[j].role = "assistant" } }

\* The conversation c is what its own email, its own classifier result and
\* its own model turns make it: the triage turn renders its email, every
\* tool-result turn answers the call of the assistant turn before it with
\* the result of that call, and every dispatched call is one of its own.
OwnConversation(c) ==
    /\ c.result \in {"ignore", "notify"} =>
          (c.messages = <<>> /\ c.classification_decision = c.result)
    /\ c.result = "respond" =>
          /\ c.classification_decision = "respond"
          /\ Len(c.messages) >= 1
          /\ c.messages[1] =
                UserTurn(<<"Respond to the email: ">> \o
                         format_email_markdown(c.email_input.subject, c.email_input.author,
                                               c.email_input.to, c.email_input.email_thread))
    /\ \A i \in 1..Len(c.messages) :
          c.messages[i].role = "tool" =>
              /\ i > 1
              /\ c.messages[i - 1].role = "assistant"
              /\ Len(c.messages[i - 1].tool_calls) = 1
              /\ c.messages[i] = tool_results(c.messages[i - 1].tool_calls)[1]
              /\ c.messages[i - 1].tool_calls[1] \in Range(c.dispatched)
    /\ Range(c.dispatched) \subseteq CallsIssued(c)
    /\ c.in_flight \subseteq Range(c.dispatched)

AgentPresent == email_assistant # None

C17_AgentPresentWhileServing ==
    [][ /\ AgentPresent <=> lifespan \in {"serving", "exiting"}
        /\ AgentPresent' <=> lifespan' \in {"serving", "exiting"}
        /\ lifespan \in {"not_started", "stopped"} => ~AgentPresent
        /\ \A r \in Requests :
              (request[r].status = "new" /\ request'[r] # request[r]) =>
                  IF AgentPresent
                  THEN /\ request'[r].status = "running"
                       /\ current' = r
                       /\ Conv(r)' \in { [InitRecord(e) EXCEPT !.issued_ids = IdBase(r)] :
                                           e \in Emails }
                  ELSE /\ request'[r].status = "responded"
                       /\ request'[r].code = 503
                       /\ request'[r].response = <<>>
                       /\ UNCHANGED <<convVars, current, parked>>
        /\ \A r \in Requests :
              Conv(r)'.classifier_calls # Conv(r).classifier_calls =>
                  (request[r].status = "running" /\ lifespan # "not_started")
      ]_vars

C17_Witness ==
    /\ lifespan = "stopped"
    /\ ~AgentPresent
    /\ request[1].code = 200
    /\ request[2].code = 503

(***************************************************************************)
(* C18: when ainvoke ends with an exception the request is answered 500    *)
(* with the exception in the detail and without a result; a result is      *)
(* returned, with 200, only when the conversation reached its end without  *)
(* an exception, and it is the final state of that conversation.           *)
(***************************************************************************)
FinalState(c) ==
    [email_input |-> c.email_input,
     classification_decision |-> c.classification_decision,
     messages |-> c.messages]

C18_FatalErrorsAnswered500 ==
    [][ /\ \A r \in Requests :
              (request[r].status = "running" /\ request'[r] # request[r]) =>
                  /\ request'[r].status = "responded"
                  /\ Conv(r)' = Conv(r)
                  /\ IF Conv(r).error # NoError
                     THEN /\ request'[r].code = 500
                          /\ request'[r].detail =
                                <<"Error invoking agent: ", Conv(r).error>>
                          /\ request'[r].response = <<>>
                     ELSE /\ Conv(r).node = END
                          /\ request'[r].code = 200
                          /\ request'[r].response = << FinalState(Conv(r)) >>
        /\ \A r \in Requests :
              request'[r].response # <<>> =>
                  /\ request'[r].code = 200
                  /\ Conv(r)'.error = NoError
                  /\ Conv(r)'.node = END
                  /\ request'[r].response = << FinalState(Conv(r)') >>
        /\ \A r \in Requests :
              (request'[r].status = "responded" /\ request'[r].code # 503
                 /\ Conv(r)'.error # NoError) => request'[r].code = 500
      ]_vars

C18_Witness ==
    /\ request[1].code = 500
    /\ request[1].detail = <<"Error invoking agent: ", NoActionSelected>>
    /\ request[1].response = <<>>
    /\ request[2].code = 200
    /\ Conv(2).classification_decision = "respond"

====
